---- MODULE Spec2Model ----
(***************************************************************************)
(* Model of the response sanitizer (LLM_strip.py) and of the repair and    *)
(* analysis front end (Experiments/python_ast_parser.py).                  *)
(*                                                                         *)
(* Text is a sequence of one-character strings, so that the regular        *)
(* expressions of the source are modelled character by character.  The     *)
(* Python value None is the one-element sequence None below, which no      *)
(* text equals.                                                            *)
(***************************************************************************)
EXTENDS Integers, Sequences, FiniteSets, TLC

VARIABLES
    pc,         \* position of the component under analysis
    raw,        \* response_text handed to extract_code_from_response
    extracted,  \* its return value
    prompt,     \* query_model: the prompt argument
    requests,   \* query_model: the generation requests issued so far, with their replies
    code_only,  \* query_model: local code_only
    outcome,    \* query_model: what the call ended with
    code,       \* parse_code / _clean_code: the code argument
    cleaned,    \* _clean_code(code)
    trimmed,    \* _fix_common_errors: local code after the bracket loops (line 156)
    cleaned2,   \* _clean_code(cleaned)
    language,   \* parse_code: the language_code argument
    tree,       \* parse_code: the tree ast.parse builds when it builds one
    record,     \* parse_code: the returned record
    calls,      \* parse_code: the helpers it invoked
    translations, \* the run: the mapping from language to prompt, in insertion order
    position,   \* the run: the item the current loop is at
    result,     \* query_llm_for_translations: local result
    inner_e,    \* query_llm_for_translations: the exception the inner handler caught
    outputs,    \* the run: the mapping from language to extracted code
    events,     \* the run: the calls of query_model and the assignments to outputs made so far
    analysis,   \* parse_all_languages: the mapping from language to record
    report      \* generate_summary_report: the totals and the blocks

vars == <<pc, raw, extracted, prompt, requests, code_only, outcome,
          code, cleaned, trimmed, cleaned2, language, tree, record, calls,
          translations, position, result, inner_e, outputs, events, analysis, report>>

extractVars == <<raw, extracted>>
queryVars   == <<prompt, requests, code_only, outcome>>
repairVars  == <<code, cleaned, trimmed, cleaned2>>
parseVars   == <<language, tree, record, calls>>
runVars     == <<translations, position, result, inner_e, outputs, events, analysis, report>>

----------------------------------------------------------------------------
(* Characters and literals.  SANY cannot read the backquote character      *)
(* (U+0060) inside a string, so the string "BQ" stands for that one         *)
(* character; the fence of the source is three of them.                     *)

None == <<"None">>

NL == "\n"
Apostrophe == "'"
DoubleQuote == "\""
WS == {" ", "\n", "\t"}

LowerSeq == <<"a", "b", "c", "d", "e", "f", "g", "h", "i", "j", "k", "l", "m",
              "n", "o", "p", "q", "r", "s", "t", "u", "v", "w", "x", "y", "z">>
UpperSeq == <<"A", "B", "C", "D", "E", "F", "G", "H", "I", "J", "K", "L", "M",
              "N", "O", "P", "Q", "R", "S", "T", "U", "V", "W", "X", "Y", "Z">>
Digits == {"0", "1", "2", "3", "4", "5", "6", "7", "8", "9"}
Letters == {LowerSeq[k] : k \in 1..26} \cup {UpperSeq[k] : k \in 1..26}

\* [a-zA-Z0-9_+-]
TagChars == Letters \cup Digits \cup {"_", "+", "-"}

\* (?i): the lower-case form of a character
ToLower(c) ==
    IF \E k \in 1..26 : UpperSeq[k] = c
    THEN LowerSeq[CHOOSE k \in 1..26 : UpperSeq[k] = c]
    ELSE c

ThinkOpen  == <<"<", "t", "h", "i", "n", "k", ">">>
ThinkClose == <<"<", "/", "t", "h", "i", "n", "k", ">">>
Backquote  == "BQ"
Fence      == <<Backquote, Backquote, Backquote>>

KwDef    == <<"d", "e", "f", " ">>
KwClass  == <<"c", "l", "a", "s", "s", " ">>
KwImport == <<"i", "m", "p", "o", "r", "t", " ">>
KwFrom   == <<"f", "r", "o", "m", " ">>
KwAt     == <<"@">>
MainGuardHead == <<"i", "f", " ", "_", "_", "n", "a", "m", "e", "_", "_", " ", "=", "=", " ">>
MainGuardName == <<"_", "_", "m", "a", "i", "n", "_", "_">>
Quotes == {Apostrophe, DoubleQuote}

LblThought   == <<"t", "h", "o", "u", "g", "h", "t">>
LblReasoning == <<"r", "e", "a", "s", "o", "n", "i", "n", "g">>
LblAnalysis  == <<"a", "n", "a", "l", "y", "s", "i", "s">>

HdrExplanation == <<"E", "x", "p", "l", "a", "n", "a", "t", "i", "o", "n">>
HdrNote        == <<"N", "o", "t", "e">>
HdrOutput      == <<"O", "u", "t", "p", "u", "t">>
HdrResult      == <<"R", "e", "s", "u", "l", "t">>
HdrExample     == <<"E", "x", "a", "m", "p", "l", "e">>
EndWord        == <<"E", "n", "d">>
Python         == <<"p", "y", "t", "h", "o", "n">>

----------------------------------------------------------------------------
(* String primitives *)

Min(S) == CHOOSE x \in S : \A y \in S : x <= y

\* the literal lit occurs in s at position i
MatchAt(s, i, lit) ==
    /\ i >= 1
    /\ i + Len(lit) - 1 <= Len(s)
    /\ \A k \in 1..Len(lit) : s[i + k - 1] = lit[k]

\* the same, ignoring case
MatchAtCI(s, i, lit) ==
    /\ i >= 1
    /\ i + Len(lit) - 1 <= Len(s)
    /\ \A k \in 1..Len(lit) : ToLower(s[i + k - 1]) = lit[k]

\* str.find from a position: the first occurrence at or after from, 0 if none
Find(s, lit, from) ==
    LET C == {k \in from..(Len(s) - Len(lit) + 1) : MatchAt(s, k, lit)}
    IN  IF C = {} THEN 0 ELSE Min(C)

\* greedy \s*: the first position at or after i that holds no whitespace
SkipWs(s, i) ==
    LET C == {k \in i..Len(s) : s[k] \notin WS}
    IN  IF C = {} THEN Len(s) + 1 ELSE Min(C)

\* str.strip()
Strip(s) ==
    LET C == {k \in 1..Len(s) : s[k] \notin WS}
    IN  IF C = {} THEN <<>>
        ELSE SubSeq(s, Min(C), CHOOSE k \in C : \A j \in C : j <= k)

\* s[i:] of Python, i counted from 1
From(s, i) == SubSeq(s, i, Len(s))

----------------------------------------------------------------------------
(* extract_code_from_response, LLM_strip.py *)

\* re.sub(r"<think>[\s\S]*?</think>", "", s): position by position, a region
\* runs from an opening marker to the first closing marker after it
RECURSIVE SubThink(_, _)
SubThink(s, i) ==
    IF i > Len(s) THEN <<>>
    ELSE IF MatchAt(s, i, ThinkOpen) /\ Find(s, ThinkClose, i + Len(ThinkOpen)) # 0
         THEN SubThink(s, Find(s, ThinkClose, i + Len(ThinkOpen)) + Len(ThinkClose))
         ELSE <<s[i]>> \o SubThink(s, i + 1)

StripThink(s) == SubThink(s, 1)

\* (thoughts?|reasoning|analysis) at i, case-insensitive: the position after
\* the label with the rest of the pattern (\s*:) matching there, 0 if none
PreambleColon(s, i) ==
    LET after ==
            IF MatchAtCI(s, i, LblThought)
            THEN IF i + 7 <= Len(s) /\ ToLower(s[i + 7]) = "s" THEN i + 8 ELSE i + 7
            ELSE IF MatchAtCI(s, i, LblReasoning) THEN i + Len(LblReasoning)
            ELSE IF MatchAtCI(s, i, LblAnalysis) THEN i + Len(LblAnalysis)
            ELSE 0
        k == SkipWs(s, after)
    IN  IF after # 0 /\ k <= Len(s) /\ s[k] = ":" THEN k ELSE 0

\* $ under re.MULTILINE, reached by the lazy .*? from position k: the next
\* line break, or the end of the text
LineEnd(s, k) ==
    LET C == {j \in k..Len(s) : s[j] = NL}
    IN  IF C = {} THEN Len(s) + 1 ELSE Min(C)

\* re.sub(r"(?i)^(thoughts?|reasoning|analysis)\s*:.*?$", "", s, re.MULTILINE)
RECURSIVE SubPreamble(_, _)
SubPreamble(s, i) ==
    IF i > Len(s) THEN <<>>
    ELSE IF (i = 1 \/ s[i - 1] = NL) /\ PreambleColon(s, i) # 0
         THEN SubPreamble(s, LineEnd(s, PreambleColon(s, i) + 1))
         ELSE <<s[i]>> \o SubPreamble(s, i + 1)

StripPreamble(s) == SubPreamble(s, 1)

\* greedy [a-zA-Z0-9_+-]*: the first position at or after i outside the class
SkipTag(s, i) ==
    LET C == {k \in i..Len(s) : s[k] \notin TagChars}
    IN  IF C = {} THEN Len(s) + 1 ELSE Min(C)

\* \s* and the fence match at e
ClosesAt(s, e) == MatchAt(s, SkipWs(s, e), Fence)

\* one match of FENCE[a-zA-Z0-9_+-]*\s*([\s\S]*?)\s*FENCE starting at i:
\* [first, last] of the captured group and the position after the match,
\* or last = -1 when the pattern does not match at i
FenceMatch(s, i) ==
    LET k == SkipWs(s, SkipTag(s, i + Len(Fence)))
        C == {e \in k..(Len(s) + 1) : ClosesAt(s, e)}
    IN  IF MatchAt(s, i, Fence) /\ C # {}
        THEN [first |-> k, last |-> Min(C) - 1,
              next |-> SkipWs(s, Min(C)) + Len(Fence)]
        ELSE [first |-> 0, last |-> -1, next |-> 0]

\* re.findall of that pattern: the captured groups, in order of appearance
RECURSIVE FindFenced(_, _)
FindFenced(s, i) ==
    IF i > Len(s) THEN <<>>
    ELSE LET m == FenceMatch(s, i)
         IN  IF m.last # -1
             THEN <<SubSeq(s, m.first, m.last)>> \o FindFenced(s, m.next)
             ELSE FindFenced(s, i + 1)

FencedBlocks(s) == FindFenced(s, 1)

\* a max that lets a later block of the same length win
RECURSIVE MaxByLenLast(_, _, _)
MaxByLenLast(blocks, i, best) ==
    IF i > Len(blocks) THEN best
    ELSE MaxByLenLast(blocks, i + 1,
                      IF Len(blocks[i]) >= Len(best) THEN blocks[i] ELSE best)

\* max(blocks, key=len, default=""): the first of the longest
RECURSIVE MaxByLen(_, _, _)
MaxByLen(blocks, i, best) ==
    IF i > Len(blocks) THEN best
    ELSE MaxByLen(blocks, i + 1,
                  IF Len(blocks[i]) > Len(best) THEN blocks[i] ELSE best)

\* the first block whatever its length, as _clean_code picks code_blocks[0]
FirstBlock(blocks) ==
    IF blocks = <<>> THEN <<>> ELSE Strip(blocks[1])

\* line 30
Longest(blocks) ==
    IF blocks = <<>> THEN <<>>
    ELSE MaxByLen([k \in 1..Len(blocks) |-> Strip(blocks[k])], 2, Strip(blocks[1]))

\* (def |class |import |from |@|if __name__ == Q__main__Q:) at k, Q a quote
MarkerAt(s, k) ==
    \/ MatchAt(s, k, KwDef)
    \/ MatchAt(s, k, KwClass)
    \/ MatchAt(s, k, KwImport)
    \/ MatchAt(s, k, KwFrom)
    \/ MatchAt(s, k, KwAt)
    \/ /\ MatchAt(s, k, MainGuardHead)
       /\ k + 25 <= Len(s)
       /\ s[k + 15] \in Quotes
       /\ MatchAt(s, k + 16, MainGuardName)
       /\ s[k + 24] \in Quotes
       /\ s[k + 25] = ":"

\* a search that also takes a print call, wherever it stands, as a code start
CodeStartAtCall(s) ==
    LET C == {p \in 1..Len(s) : MatchAt(s, p, <<"p", "r", "i", "n", "t", "(">>)}
    IN  IF C = {} THEN 0 ELSE Min(C)

\* re.search(r"(^|\n)\s*(...)", s).start() counted from 1, 0 if no match
CodeStart(s) ==
    LET C == {p \in 1..Len(s) :
                \/ p = 1 /\ MarkerAt(s, SkipWs(s, 1))
                \/ s[p] = NL /\ MarkerAt(s, SkipWs(s, p + 1))}
    IN  IF C = {} THEN 0 ELSE Min(C)

\* (Explanation|Notes?|Output|Result|Example)\s*: at k
HeaderAt(s, k) ==
    LET after ==
            IF MatchAt(s, k, HdrExplanation) THEN k + Len(HdrExplanation)
            ELSE IF MatchAt(s, k, HdrNote)
                 THEN IF k + 4 <= Len(s) /\ s[k + 4] = "s" THEN k + 5 ELSE k + 4
            ELSE IF MatchAt(s, k, HdrOutput) THEN k + Len(HdrOutput)
            ELSE IF MatchAt(s, k, HdrResult) THEN k + Len(HdrResult)
            ELSE IF MatchAt(s, k, HdrExample) THEN k + Len(HdrExample)
            ELSE 0
        c == SkipWs(s, after)
    IN  after # 0 /\ c <= Len(s) /\ s[c] = ":"

\* #\s*End at k
EndMarkAt(s, k) ==
    /\ k <= Len(s)
    /\ s[k] = "#"
    /\ MatchAt(s, SkipWs(s, k + 1), EndWord)

\* re.split(r"\n\s*(...)\s*:|\n\s*#\s*End", s)[0]
BeforeProse(s) ==
    LET C == {q \in 1..Len(s) :
                /\ s[q] = NL
                /\ \/ HeaderAt(s, SkipWs(s, q + 1))
                   \/ EndMarkAt(s, SkipWs(s, q + 1))}
    IN  IF C = {} THEN s ELSE SubSeq(s, 1, Min(C) - 1)

\* a fallback that hands the text back when it finds no code start
HeuristicPassThrough(s) ==
    IF CodeStart(s) # 0
    THEN Strip(BeforeProse(Strip(From(s, CodeStart(s)))))
    ELSE Strip(s)

\* lines 33-42: the heuristic fallback
Heuristic(s) ==
    IF CodeStart(s) # 0
    THEN Strip(BeforeProse(Strip(From(s, CodeStart(s)))))
    ELSE <<>>

\* the preamble removal alone, the reasoning regions left in
SanitizedPreambleOnly(s) == StripPreamble(s)

\* lines 23-24
Sanitized(s) == StripPreamble(StripThink(s))

extract_code_from_response(response_text) ==
    IF response_text = None \/ response_text = <<>> THEN <<>>
    ELSE LET s == Sanitized(response_text)
         IN  IF FencedBlocks(s) # <<>>
             THEN Longest(FencedBlocks(s))
             ELSE Heuristic(s)

----------------------------------------------------------------------------
(* _clean_code and _fix_common_errors, Experiments/python_ast_parser.py *)

\* one match of FENCE(?:python)?\s*\n?(.*?)\n?FENCE (DOTALL, IGNORECASE) at i:
\* [first, last] of the captured group, last = -1 when there is no match
CodeBlockMatch(s, i) ==
    LET k == SkipWs(s, IF MatchAtCI(s, i + Len(Fence), Python)
                       THEN i + Len(Fence) + Len(Python)
                       ELSE i + Len(Fence))
        C == {e \in k..(Len(s) + 1) :
                \/ MatchAt(s, e, Fence)
                \/ e <= Len(s) /\ s[e] = NL /\ MatchAt(s, e + 1, Fence)}
    IN  IF MatchAt(s, i, Fence) /\ C # {}
        THEN [first |-> k, last |-> Min(C) - 1]
        ELSE [first |-> 0, last |-> -1]

\* lines 84-88: code_blocks[0] when re.findall finds a block, else the code
SelectBlock(s) ==
    LET C == {i \in 1..Len(s) : CodeBlockMatch(s, i).last # -1}
    IN  IF C = {} THEN s
        ELSE SubSeq(s, CodeBlockMatch(s, Min(C)).first, CodeBlockMatch(s, Min(C)).last)

\* str.split('\n')
RECURSIVE SplitFrom(_, _)
SplitFrom(s, i) ==
    LET C == {k \in i..Len(s) : s[k] = NL}
    IN  IF C = {} THEN <<SubSeq(s, i, Len(s))>>
        ELSE <<SubSeq(s, i, Min(C) - 1)>> \o SplitFrom(s, Min(C) + 1)

SplitLines(s) == SplitFrom(s, 1)

\* '\n'.join(lines)
RECURSIVE Join(_)
Join(lines) ==
    IF lines = <<>> THEN <<>>
    ELSE IF Len(lines) = 1 THEN lines[1]
    ELSE lines[1] \o <<NL>> \o Join(Tail(lines))

\* str.rstrip()
RStrip(s) ==
    LET C == {k \in 1..Len(s) : s[k] \notin WS}
    IN  IF C = {} THEN <<>> ELSE SubSeq(s, 1, CHOOSE k \in C : \A j \in C : j <= k)

\* line.index('#'), 0 when the line holds none
IndexHash(line) ==
    LET C == {k \in 1..Len(line) : line[k] = "#"}
    IN  IF C = {} THEN 0 ELSE Min(C)

\* lines 101-102: line[:line.index('#')].rstrip()
CutComment(line) ==
    IF IndexHash(line) # 0
    THEN RStrip(SubSeq(line, 1, IndexHash(line) - 1))
    ELSE line

\* lines 94-106: the lines kept, in order
RECURSIVE KeptLines(_)
KeptLines(lines) ==
    IF lines = <<>> THEN <<>>
    ELSE LET stripped == Strip(Head(lines))
         IN  IF stripped = <<>> \/ stripped[1] = "#"
             THEN KeptLines(Tail(lines))
             ELSE IF CutComment(Head(lines)) = <<>>
                  THEN KeptLines(Tail(lines))
                  ELSE <<CutComment(Head(lines))>> \o KeptLines(Tail(lines))

\* lines 91-108
CleanLines(s) == Join(KeptLines(SplitLines(s)))

\* str.count of one character
Count(s, c) == Cardinality({k \in 1..Len(s) : s[k] = c})

\* str.rfind of one character, 0 when there is none
RFind(s, c) ==
    LET C == {k \in 1..Len(s) : s[k] = c}
    IN  IF C = {} THEN 0 ELSE CHOOSE k \in C : \A j \in C : j <= k

\* code[:p] + code[p + 1:] for the character at position p
RemoveAt(s, p) == SubSeq(s, 1, p - 1) \o SubSeq(s, p + 1, Len(s))

\* a loop that removes the first closing symbol each time
RECURSIVE RemoveFirstN(_, _, _)
RemoveFirstN(s, c, n) ==
    IF n = 0 THEN s
    ELSE IF Count(s, c) = 0 THEN RemoveFirstN(s, c, n - 1)
    ELSE RemoveFirstN(RemoveAt(s, Min({k \in 1..Len(s) : s[k] = c})), c, n - 1)

\* lines 130-134: diff times, remove the last closing symbol
RECURSIVE RemoveLastN(_, _, _)
RemoveLastN(s, c, n) ==
    IF n = 0 THEN s
    ELSE IF RFind(s, c) = 0 THEN RemoveLastN(s, c, n - 1)
    ELSE RemoveLastN(RemoveAt(s, RFind(s, c)), c, n - 1)

\* lines 124-134 for one kind of bracket
TrimKind(s, open, close) ==
    IF Count(s, close) > Count(s, open)
    THEN RemoveLastN(s, close, Count(s, close) - Count(s, open))
    ELSE s

\* lines 122-156: the local code after the three loops
TrimBrackets(s) == TrimKind(TrimKind(TrimKind(s, "(", ")"), "[", "]"), "{", "}")

\* the first position at or after i that holds c, Len + 1 when there is none
NextPos(s, c, i) ==
    LET C == {k \in i..Len(s) : s[k] = c}
    IN  IF C = {} THEN Len(s) + 1 ELSE Min(C)

\* one match of f"[^"]*\{[^}]*\}[^"]*" at i: the position of its closing
\* quote, 0 when there is no match.  The greedy [^"]* tries the last opening
\* brace before the next quote first; [^}]* may run across quotes.
FStringEnd(s, i) ==
    LET q == NextPos(s, DoubleQuote, i + 2)
        A == {a \in (i + 2)..(q - 1) :
                /\ s[a] = "{"
                /\ NextPos(s, "}", a + 1) <= Len(s)
                /\ NextPos(s, DoubleQuote, NextPos(s, "}", a + 1) + 1) <= Len(s)}
        last == CHOOSE a \in A : \A b \in A : b <= a
    IN  IF MatchAt(s, i, <<"f", DoubleQuote>>) /\ A # {}
        THEN NextPos(s, DoubleQuote, NextPos(s, "}", last + 1) + 1)
        ELSE 0

\* m.group(0).replace('{', '{{').replace('}', '}}')
RECURSIVE DoubleBraces(_)
DoubleBraces(s) ==
    IF s = <<>> THEN <<>>
    ELSE (IF Head(s) \in {"{", "}"} THEN <<Head(s), Head(s)>> ELSE <<Head(s)>>)
         \o DoubleBraces(Tail(s))

\* line 160: re.sub of the f-string pattern
RECURSIVE SubFString(_, _)
SubFString(s, i) ==
    IF i > Len(s) THEN <<>>
    ELSE IF FStringEnd(s, i) # 0
         THEN DoubleBraces(SubSeq(s, i, FStringEnd(s, i))) \o SubFString(s, FStringEnd(s, i) + 1)
         ELSE <<s[i]>> \o SubFString(s, i + 1)

EscapeFStrings(s) == SubFString(s, 1)

\* line 163: re.sub(r',\s*\)', ')', code)
RECURSIVE SubCommaParen(_, _)
SubCommaParen(s, i) ==
    IF i > Len(s) THEN <<>>
    ELSE IF s[i] = "," /\ SkipWs(s, i + 1) <= Len(s) /\ s[SkipWs(s, i + 1)] = ")"
         THEN <<")">> \o SubCommaParen(s, SkipWs(s, i + 1) + 1)
         ELSE <<s[i]>> \o SubCommaParen(s, i + 1)

RemoveCommaParen(s) == SubCommaParen(s, 1)

\* lines 115-165
_fix_common_errors(c) ==
    IF c = <<>> THEN c
    ELSE Strip(RemoveCommaParen(EscapeFStrings(TrimBrackets(c))))

\* lines 76-113
_clean_code(c) ==
    IF c = None \/ c = <<>> THEN <<>>
    ELSE _fix_common_errors(CleanLines(SelectBlock(c)))

----------------------------------------------------------------------------
(* Inputs of the sanitizer *)

MaxPieces == 5
MaxFencePieces == 6

\* all concatenations of at most n pieces
RECURSIVE Flatten(_)
Flatten(ps) == IF ps = <<>> THEN <<>> ELSE Head(ps) \o Flatten(Tail(ps))

Texts(pieces, n) ==
    {Flatten(ps) : ps \in UNION {[1..m -> pieces] : m \in 0..n}}

\* the character that stands for reasoning text
Secret == "?"

ExtractPieces == {ThinkOpen, ThinkClose, Fence, <<NL>>, KwDef, <<Secret>>}
FencePieces   == {Fence, <<NL>>, <<"?">>, <<"!">>}

ImportOs  == KwImport \o <<"o", "s">>
ImportSys == KwImport \o <<"s", "y", "s">>

\* spec.md, end-to-end scenario 1
Scenario1 ==
    ThinkOpen \o <<"i", "g", "n", "o", "r", "e">> \o ThinkClose \o <<NL>>
    \o Fence \o Python \o <<NL>>
    \o KwDef \o <<"a", "d", "d", "(", "a", ",", " ", "b", ")", ":", NL>>
    \o <<" ", " ", " ", " ", "r", "e", "t", "u", "r", "n", " ", "a", " ", "+", " ", "b", NL>>
    \o Fence

\* spec.md, end-to-end scenario 2
Scenario2 ==
    <<"S", "u", "r", "e", "!", " ", "H", "e", "r", "e", Apostrophe, "s", " ",
      "t", "h", "e", " ", "a", "n", "s", "w", "e", "r", ":", " ",
      "p", "r", "i", "n", "t", "(", "4", "2">>

\* the unclosed call of scenario 2
PrintCall == <<"p", "r", "i", "n", "t", "(", "4", "2">>

\* spec.md, end-to-end scenario 4
Scenario4 ==
    Fence \o <<NL>> \o ImportOs \o <<NL>> \o Fence \o <<NL>>
    \o Fence \o <<NL>> \o ImportSys \o <<NL>> \o Fence

XThenXX ==
    Fence \o <<NL, "x", NL>> \o Fence \o <<NL>> \o Fence \o <<NL, "x", "x", NL>> \o Fence
XXThenX ==
    Fence \o <<NL, "x", "x", NL>> \o Fence \o <<NL>> \o Fence \o <<NL, "x", NL>> \o Fence

\* a preamble line, code without a fence, and a prose section after it
PreambleProse ==
    <<"A", "n", "a", "l", "y", "s", "i", "s", ":", " ", "p", "l", "a", "n", NL>>
    \o ImportOs \o <<NL, "p", "r", "i", "n", "t", "(", "1", ")", NL>>
    \o HdrNote \o <<"s", ":", " ", "d", "o", "n", "e">>

Scenarios == {Scenario1, Scenario2, Scenario4, XThenXX, XXThenX, PreambleProse}

----------------------------------------------------------------------------
(* The sanitizer on its own: one call of extract_code_from_response *)

\* no run is under way
RunIdle ==
    /\ translations = <<>> /\ position = 0 /\ result = None /\ inner_e = None
    /\ outputs = <<>> /\ events = <<>> /\ analysis = <<>> /\ report = None

Idle ==
    /\ prompt = None /\ requests = <<>> /\ code_only = None /\ outcome = None
    /\ code = None /\ cleaned = None /\ trimmed = None /\ cleaned2 = None
    /\ language = None /\ tree = None /\ record = None /\ calls = {}
    /\ RunIdle

InitExtract ==
    /\ pc = "extract"
    /\ raw \in Texts(ExtractPieces, MaxPieces) \cup Scenarios \cup {None}
    /\ extracted = None
    /\ Idle

InitFence ==
    /\ pc = "extract"
    /\ raw \in Texts(FencePieces, MaxFencePieces) \cup Scenarios
    /\ extracted = None
    /\ Idle

Extract ==
    /\ pc = "extract"
    /\ extracted' = extract_code_from_response(raw)
    /\ pc' = "extracted"
    /\ UNCHANGED <<raw, queryVars, repairVars, parseVars, runVars>>

SpecExtract == InitExtract /\ [][Extract]_vars
SpecFence   == InitFence /\ [][Extract]_vars

----------------------------------------------------------------------------
(* query_model, LLM_strip.py lines 45-79 *)

MaxResponsePieces == 2

Prompts == {<<"p", "1">>, <<"p", "2">>}

\* what response.json().get("response", "") can be for an OK reply: a text,
\* the empty default, or a JSON null
ResponseTexts == Texts(ExtractPieces, MaxResponsePieces) \cup Scenarios \cup {None}

\* what requests.post can end with: an OK reply with its text, a reply that
\* is not OK, or a requests.RequestException
Replies ==
    [status : {"ok"}, text : ResponseTexts]
        \cup {[status |-> "not_ok", text |-> None],
              [status |-> "exception", text |-> None]}

Return(v) == [kind |-> "return", value |-> v]
Raise(e)  == [kind |-> "raise", value |-> e]

\* a guard that asks for the retry whatever the first extraction gave
NeedsRetryAlways(c) == TRUE

\* line 69: not code_only.strip()
NeedsRetry(c) == Strip(c) = <<>>

InitQuery ==
    /\ pc = "query"
    /\ prompt \in Prompts
    /\ requests = <<>> /\ code_only = None /\ outcome = None
    /\ raw = None /\ extracted = None
    /\ code = None /\ cleaned = None /\ trimmed = None /\ cleaned2 = None
    /\ language = None /\ tree = None /\ record = None /\ calls = {}
    /\ RunIdle

\* lines 47-69: the first request, the extraction from its reply and the
\* decision to retry
QueryFirst ==
    /\ pc = "query"
    /\ \E r \in Replies :
          /\ requests' = <<[instruction |-> "strict", prompt |-> prompt, reply |-> r]>>
          /\ IF r.status = "ok"
             THEN /\ raw' = r.text
                  /\ code_only' = extract_code_from_response(r.text)
                  /\ IF NeedsRetry(extract_code_from_response(r.text))
                     THEN pc' = "retry" /\ outcome' = outcome
                     ELSE /\ pc' = "returned"
                          /\ outcome' = Return(extract_code_from_response(r.text))
             ELSE /\ pc' = "raised"
                  /\ outcome' = Raise("RuntimeError")
                  /\ UNCHANGED <<raw, code_only>>
    /\ UNCHANGED <<extracted, prompt, repairVars, parseVars, runVars>>

\* lines 70-79: the one retry; its post is outside the try block
QueryRetry ==
    /\ pc = "retry"
    /\ \E r \in Replies :
          /\ requests' = Append(requests,
                                [instruction |-> "retry", prompt |-> prompt, reply |-> r])
          /\ CASE r.status = "ok" ->
                    /\ raw' = r.text
                    /\ code_only' = extract_code_from_response(r.text)
                    /\ pc' = "returned"
                    /\ outcome' = Return(extract_code_from_response(r.text))
               [] r.status = "not_ok" ->
                    /\ pc' = "returned"
                    /\ outcome' = Return(code_only)
                    /\ UNCHANGED <<raw, code_only>>
               [] r.status = "exception" ->
                    /\ pc' = "raised"
                    /\ outcome' = Raise("RequestException")
                    /\ UNCHANGED <<raw, code_only>>
    /\ UNCHANGED <<extracted, prompt, repairVars, parseVars, runVars>>

SpecQuery == InitQuery /\ [][QueryFirst \/ QueryRetry]_vars

----------------------------------------------------------------------------
(* The repair routine on its own: _clean_code applied, and applied again *)

MaxTrimPieces == 4
MaxRepairPieces == 4
MaxFStringPieces == 6

TrimPieces    == {<<"(">>, <<")">>, <<"[">>, <<"]">>, <<"{">>, <<"}">>, <<"x">>}
RepairPieces  == {<<"(">>, <<")">>, <<",">>, <<"#">>, <<NL>>, <<" ">>, <<"x">>}
FStringPieces == {<<"f", DoubleQuote>>, <<DoubleQuote>>, <<"{">>, <<"}">>}

\* an f-string with one interpolation, a one-element tuple, and fenced code
RepairScenarios ==
    {<<"f", DoubleQuote, "{", "x", "}", DoubleQuote>>,
     <<"t", " ", "=", " ", "(", "x", ",", ")">>,
     Fence \o Python \o <<NL, "x", " ", "=", " ", "[", "1", "]", NL>> \o Fence}

\* the local cleaned_code of line 108, the argument of _fix_common_errors
FixInput(c) == CleanLines(SelectBlock(c))

RepairIdle ==
    /\ pc = "repair"
    /\ cleaned = None /\ trimmed = None /\ cleaned2 = None
    /\ raw = None /\ extracted = None
    /\ prompt = None /\ requests = <<>> /\ code_only = None /\ outcome = None
    /\ language = None /\ tree = None /\ record = None /\ calls = {}
    /\ RunIdle

InitTrim    == code \in Texts(TrimPieces, MaxTrimPieces) /\ RepairIdle
InitRepair  == code \in Texts(RepairPieces, MaxRepairPieces) \cup RepairScenarios
               /\ RepairIdle
InitFString == code \in Texts(FStringPieces, MaxFStringPieces) /\ RepairIdle

\* _clean_code(code); trimmed records the local code of _fix_common_errors
\* after the bracket loops, when the routine gets that far
Repair ==
    /\ pc = "repair"
    /\ cleaned' = _clean_code(code)
    /\ trimmed' = IF code = <<>> \/ FixInput(code) = <<>>
                  THEN None
                  ELSE TrimBrackets(FixInput(code))
    /\ pc' = "repaired"
    /\ UNCHANGED <<code, cleaned2, extractVars, queryVars, parseVars, runVars>>

\* _clean_code applied to its own output
RepairAgain ==
    /\ pc = "repaired"
    /\ cleaned2' = _clean_code(cleaned)
    /\ pc' = "repaired2"
    /\ UNCHANGED <<code, cleaned, trimmed, extractVars, queryVars, parseVars, runVars>>

SpecTrim    == InitTrim /\ [][Repair \/ RepairAgain]_vars
SpecRepair  == InitRepair /\ [][Repair \/ RepairAgain]_vars
SpecFString == InitFString /\ [][Repair \/ RepairAgain]_vars

----------------------------------------------------------------------------
(* The syntax tree handed to _extract_statistics and _extract_elements.     *)
(* A tree is the sequence of its nodes in document order, each with its     *)
(* depth below the Module node; ast.walk visits breadth first, that is by   *)
(* depth and, within one depth, in document order.  Nodes that no branch    *)
(* of the extraction looks at (contexts, arguments, aliases) are left out.  *)

TyInt   == <<"i", "n", "t">>
NoneStr == <<"N", "o", "n", "e">>
KwFor   == <<"f", "o", "r">>
KwWhile == <<"w", "h", "i", "l", "e">>
KwIf    == <<"i", "f">>
TyList  == <<"l", "i", "s", "t">>
TyDict  == <<"d", "i", "c", "t">>
TyTuple == <<"t", "u", "p", "l", "e">>
TyCall  == <<"f", "u", "n", "c", "t", "i", "o", "n", "_", "c", "a", "l", "l">>
Unknown == <<"u", "n", "k", "n", "o", "w", "n">>

Node(k, id) == [kind |-> k, depth |-> 1, id |-> id, names |-> <<>>]
Deeper(sub) == [i \in 1..Len(sub) |-> [sub[i] EXCEPT !.depth = @ + 1]]

Under(root, subs) == <<root>> \o Deeper(Flatten(subs))

\* expressions
NameE(id)                == <<Node("Name", id)>>
AttributeE(value, attr)  == Under(Node("Attribute", attr), <<value>>)
CallE(func, args)        == Under(Node("Call", <<>>), <<func>> \o args)
ConstantE(type)          == <<Node("Constant", type)>>
IfExpE(test, body, else) == Under(Node("IfExp", <<>>), <<test, body, else>>)
CompareE(left, op, comparators) ==
    Under([Node("Compare", <<>>) EXCEPT !.names = <<op>>], <<left>> \o comparators)

\* statements
ExprS(value)               == Under(Node("Expr", <<>>), <<value>>)
AssignS(targets, value)    == Under(Node("Assign", <<>>), targets \o <<value>>)
ImportS(names)             == <<[Node("Import", <<>>) EXCEPT !.names = names]>>
ImportFromS(module, names) == <<[Node("ImportFrom", module) EXCEPT !.names = names]>>
ReturnS                    == <<Node("Return", <<>>)>>
PassS                      == <<Node("Pass", <<>>)>>
FunctionDefS(name, body)   == Under(Node("FunctionDef", name), body)
ClassDefS(name, bases, body) == Under(Node("ClassDef", name), bases \o body)
ForS(target, iter, body)   == Under(Node("For", <<>>), <<target, iter>> \o body)
WhileS(test, body)         == Under(Node("While", <<>>), <<test>> \o body)
IfS(test, body)            == Under(Node("If", <<>>), <<test>> \o body)

ExprKinds == {"Name", "Attribute", "Call", "Constant", "IfExp", "Compare"}

Indices(t) == [i \in 1..Len(t) |-> i]

\* node j is a child of node i
IsChild(t, i, j) ==
    /\ j > i
    /\ t[j].depth = t[i].depth + 1
    /\ \A k \in (i + 1)..(j - 1) : t[k].depth > t[i].depth

\* ast.iter_child_nodes(node)
Children(t, i) == SelectSeq(Indices(t), LAMBDA j : IsChild(t, i, j))

\* node j is node i or below it: ast.walk(node) reaches it
InSubtree(t, i, j) == j >= i /\ \A k \in (i + 1)..j : t[k].depth > t[i].depth

\* ast.walk(tree): the nodes of depth d, then those of depth d + 1, ...
RECURSIVE WalkFrom(_, _)
WalkFrom(t, d) ==
    IF \A i \in 1..Len(t) : t[i].depth < d THEN <<>>
    ELSE SelectSeq(Indices(t), LAMBDA i : t[i].depth = d) \o WalkFrom(t, d + 1)

Walk(t) == WalkFrom(t, 1)

\* str(x) inside an f-string
Str(v) == IF v = None THEN NoneStr ELSE v

\* str(node) of a node without a __str__: its default representation
StrOfNode(kind, addr) == <<"<ast.", kind, " object at ", addr, ">">>

\* lines 369-375
RECURSIVE _get_name(_, _)
_get_name(t, i) ==
    IF t[i].kind = "Name" THEN t[i].id
    ELSE IF t[i].kind = "Attribute"
         THEN Str(_get_name(t, Children(t, i)[1])) \o <<".">> \o t[i].id
         ELSE None

\* lines 377-389
_get_value_type(t, i) ==
    CASE t[i].kind = "Constant" -> t[i].id
      [] t[i].kind = "List"     -> TyList
      [] t[i].kind = "Dict"     -> TyDict
      [] t[i].kind = "Tuple"    -> TyTuple
      [] t[i].kind = "Call"     -> TyCall
      [] OTHER                  -> Unknown

\* x or str(node)
OrStr(v, kind, addr) == IF v = None \/ v = <<>> THEN StrOfNode(kind, addr) ELSE v

\* ' '.join(parts)
RECURSIVE JoinSpace(_)
JoinSpace(parts) ==
    IF parts = <<>> THEN <<>>
    ELSE IF Len(parts) = 1 THEN parts[1]
    ELSE parts[1] \o <<" ">> \o JoinSpace(Tail(parts))

\* lines 391-398
_get_condition_string(t, i, addr) ==
    IF t[i].kind = "Compare"
    THEN LET c     == Children(t, i)
             left  == OrStr(_get_name(t, c[1]), t[c[1]].kind, addr)
             comps == [k \in 1..(Len(c) - 1) |->
                          OrStr(_get_name(t, c[k + 1]), t[c[k + 1]].kind, addr)]
         IN  left \o <<" ">> \o JoinSpace(t[i].names) \o <<" ">> \o JoinSpace(comps)
    ELSE StrOfNode(t[i].kind, addr)

\* the nodes of ast.walk(tree) whose kind is in K
Visited(t, K) == SelectSeq(Walk(t), LAMBDA i : t[i].kind \in K)

\* line 261: len(node.targets), summed over the Assign nodes
RECURSIVE SumTargets(_, _)
SumTargets(t, assigns) ==
    IF assigns = <<>> THEN 0
    ELSE (Len(Children(t, Head(assigns))) - 1) + SumTargets(t, Tail(assigns))

\* lines 236-274
_extract_statistics(t) ==
    [total_lines           |-> 0,
     function_count        |-> Len(Visited(t, {"FunctionDef"})),
     class_count           |-> Len(Visited(t, {"ClassDef"})),
     import_count          |-> Len(Visited(t, {"Import", "ImportFrom"})),
     variable_count        |-> SumTargets(t, Visited(t, {"Assign"})),
     function_call_count   |-> Len(Visited(t, {"Call"})),
     loop_count            |-> Len(Visited(t, {"For", "While"})),
     conditional_count     |-> Len(Visited(t, {"If", "IfExp"})),
     string_literal_count  |-> Len(SelectSeq(Visited(t, {"Constant"}),
                                    LAMBDA i : t[i].id = <<"s", "t", "r">>)),
     numeric_literal_count |-> Len(SelectSeq(Visited(t, {"Constant"}),
                                    LAMBDA i : t[i].id \in {TyInt, <<"f", "l", "o", "a", "t">>,
                                                             <<"b", "o", "o", "l">>}))]

\* line 296: any(isinstance(n, ast.Return) for n in ast.walk(node))
HasReturn(t, i) == \E j \in 1..Len(t) : InSubtree(t, i, j) /\ t[j].kind = "Return"

\* lines 292-297
FunctionEntry(t, i) ==
    [name |-> t[i].id, args |-> <<>>, decorators |-> <<>>, has_return |-> HasReturn(t, i)]

\* the same, but a function below the top level is not listed
FunctionEntriesTopLevel(t, i) ==
    IF t[i].depth = 1 THEN <<FunctionEntry(t, i)>> ELSE <<>>

\* lines 291-297: every FunctionDef node the walk meets is listed
FunctionEntries(t, i) ==
    <<FunctionEntry(t, i)>>

\* lines 300-313
ClassEntry(t, i) ==
    LET body  == SelectSeq(Children(t, i), LAMBDA j : t[j].kind = "FunctionDef")
        bases == SelectSeq(Children(t, i), LAMBDA j : t[j].kind \in ExprKinds)
    IN  [name    |-> t[i].id,
         bases   |-> [k \in 1..Len(bases) |-> _get_name(t, bases[k])],
         methods |-> [k \in 1..Len(body) |->
                        [name |-> t[body[k]].id, args |-> <<>>,
                         has_return |-> HasReturn(t, body[k])]]]

\* an extraction that lists the names of an import statement and not those
\* of a from-import
ImportEntriesNoFrom(t, i) ==
    IF t[i].kind = "Import"
    THEN [k \in 1..Len(t[i].names) |-> [module |-> t[i].names[k], alias |-> None]]
    ELSE <<>>

\* lines 315-328: one entry per imported name
ImportEntries(t, i) ==
    [k \in 1..Len(t[i].names) |->
        IF t[i].kind = "Import"
        THEN [module |-> t[i].names[k], alias |-> None]
        ELSE [module |-> t[i].id, name |-> t[i].names[k], alias |-> None]]

\* lines 330-336: one entry per target that is a bare name
VariableEntries(t, i) ==
    LET c       == Children(t, i)
        targets == SelectSeq(SubSeq(c, 1, Len(c) - 1), LAMBDA j : t[j].kind = "Name")
    IN  [k \in 1..Len(targets) |->
            [name |-> t[targets[k]].id, type |-> _get_value_type(t, c[Len(c)])]]

\* lines 338-345: no entry when the callee has no name
CallEntries(t, i) ==
    LET c         == Children(t, i)
        func_name == _get_name(t, c[1])
    IN  IF func_name # None /\ func_name # <<>>
        THEN <<[name |-> func_name, args_count |-> Len(c) - 1, keywords_count |-> 0]>>
        ELSE <<>>

\* lines 347-351
LoopEntry(t, i) ==
    IF t[i].kind = "For"
    THEN [type |-> KwFor, target |-> _get_name(t, Children(t, i)[1])]
    ELSE [type |-> KwWhile, target |-> None]

\* lines 353-357
ConditionalEntry(t, i, addr) ==
    [type |-> KwIf, test |-> _get_condition_string(t, Children(t, i)[1], addr)]

\* lines 276-359: the entries of the visited nodes, one after the other
_extract_elements(t, addr) ==
    LET fs == Visited(t, {"FunctionDef"})
        cs == Visited(t, {"ClassDef"})
        is == Visited(t, {"Import", "ImportFrom"})
        as == Visited(t, {"Assign"})
        ks == Visited(t, {"Call"})
        ls == Visited(t, {"For", "While"})
        ts == Visited(t, {"If"})
    IN  [functions      |-> Flatten([k \in 1..Len(fs) |-> FunctionEntries(t, fs[k])]),
         classes        |-> [k \in 1..Len(cs) |-> ClassEntry(t, cs[k])],
         imports        |-> Flatten([k \in 1..Len(is) |-> ImportEntries(t, is[k])]),
         variables      |-> Flatten([k \in 1..Len(as) |-> VariableEntries(t, as[k])]),
         function_calls |-> Flatten([k \in 1..Len(ks) |-> CallEntries(t, ks[k])]),
         loops          |-> [k \in 1..Len(ls) |-> LoopEntry(t, ls[k])],
         conditionals   |-> [k \in 1..Len(ts) |-> ConditionalEntry(t, ts[k], addr)]]

(* Programs: source text together with the tree ast.parse builds from it.   *)
(* The grammar of ast.parse is not part of the repository; the trees of     *)
(* these statements are written out by hand.                                 *)

MaxStmts == 2

\* f()
CallName ==
    [src |-> <<"f", "(", ")">>,
     nodes |-> ExprS(CallE(NameE(<<"f">>), <<>>))]

\* a.b()
CallMember ==
    [src |-> <<"a", ".", "b", "(", ")">>,
     nodes |-> ExprS(CallE(AttributeE(NameE(<<"a">>), <<"b">>), <<>>))]

\* f().g()
CallOnResult ==
    [src |-> <<"f", "(", ")", ".", "g", "(", ")">>,
     nodes |-> ExprS(CallE(AttributeE(CallE(NameE(<<"f">>), <<>>), <<"g">>), <<>>))]

\* f()()
CallOfCall ==
    [src |-> <<"f", "(", ")", "(", ")">>,
     nodes |-> ExprS(CallE(CallE(NameE(<<"f">>), <<>>), <<>>))]

\* x = 1
AssignName ==
    [src |-> <<"x", " ", "=", " ", "1">>,
     nodes |-> AssignS(<<NameE(<<"x">>)>>, ConstantE(TyInt))]

\* a.b = 1
AssignMember ==
    [src |-> <<"a", ".", "b", " ", "=", " ", "1">>,
     nodes |-> AssignS(<<AttributeE(NameE(<<"a">>), <<"b">>)>>, ConstantE(TyInt))]

\* x = 1 if y else 2
AssignIfExp ==
    [src |-> <<"x", " ", "=", " ", "1", " ", "i", "f", " ", "y", " ", "e", "l", "s", "e", " ", "2">>,
     nodes |-> AssignS(<<NameE(<<"x">>)>>, IfExpE(NameE(<<"y">>), ConstantE(TyInt), ConstantE(TyInt)))]

\* import os, sys
ImportTwo ==
    [src |-> <<"i", "m", "p", "o", "r", "t", " ", "o", "s", ",", " ", "s", "y", "s">>,
     nodes |-> ImportS(<<<<"o", "s">>, <<"s", "y", "s">>>>)]

\* from a import b
FromImport ==
    [src |-> <<"f", "r", "o", "m", " ", "a", " ", "i", "m", "p", "o", "r", "t", " ", "b">>,
     nodes |-> ImportFromS(<<"a">>, <<<<"b">>>>)]

\* def f(): /  return
DefReturn ==
    [src |-> <<"d", "e", "f", " ", "f", "(", ")", ":", NL, " ", "r", "e", "t", "u", "r", "n">>,
     nodes |-> FunctionDefS(<<"f">>, <<ReturnS>>)]

\* class C(B): /  def m(): /   pass
ClassMethod ==
    [src |-> <<"c", "l", "a", "s", "s", " ", "C", "(", "B", ")", ":", NL, " ", "d", "e", "f", " ", "m", "(", ")", ":", NL, " ", " ", "p", "a", "s", "s">>,
     nodes |-> ClassDefS(<<"C">>, <<NameE(<<"B">>)>>, <<FunctionDefS(<<"m">>, <<PassS>>)>>)]

\* for i in x: /  pass
ForLoop ==
    [src |-> <<"f", "o", "r", " ", "i", " ", "i", "n", " ", "x", ":", NL, " ", "p", "a", "s", "s">>,
     nodes |-> ForS(NameE(<<"i">>), NameE(<<"x">>), <<PassS>>)]

\* while x: /  pass
WhileLoop ==
    [src |-> <<"w", "h", "i", "l", "e", " ", "x", ":", NL, " ", "p", "a", "s", "s">>,
     nodes |-> WhileS(NameE(<<"x">>), <<PassS>>)]

\* if x: /  pass
IfName ==
    [src |-> <<"i", "f", " ", "x", ":", NL, " ", "p", "a", "s", "s">>,
     nodes |-> IfS(NameE(<<"x">>), <<PassS>>)]

\* if x == y: /  pass
IfCompare ==
    [src |-> <<"i", "f", " ", "x", " ", "=", "=", " ", "y", ":", NL, " ", "p", "a", "s", "s">>,
     nodes |-> IfS(CompareE(NameE(<<"x">>), <<"E", "q">>, <<NameE(<<"y">>)>>), <<PassS>>)]

Statements ==
    {CallName, CallMember, CallOnResult, CallOfCall, AssignName,
     AssignMember, AssignIfExp, ImportTwo, FromImport, DefReturn,
     ClassMethod, ForLoop, WhileLoop, IfName, IfCompare}

\* a program of several statements: its text and its tree
RECURSIVE ProgramOf(_)
ProgramOf(stmts) ==
    IF stmts = <<>> THEN [src |-> <<>>, nodes |-> <<>>]
    ELSE IF Len(stmts) = 1 THEN Head(stmts)
    ELSE [src   |-> Head(stmts).src \o <<NL>> \o ProgramOf(Tail(stmts)).src,
          nodes |-> Head(stmts).nodes \o ProgramOf(Tail(stmts)).nodes]

Modules ==
    {ProgramOf(stmts) : stmts \in UNION {[1..n -> Statements] : n \in 1..MaxStmts}}

\* the addresses the interpreter may give a node
Addresses == {"0x7f01", "0x7f02"}

----------------------------------------------------------------------------
(* parse_code, lines 18-74.  The grammar of ast.parse is not part of the    *)
(* repository: its outcome on a text is a choice among a tree, a            *)
(* SyntaxError and another exception, except that the empty text always     *)
(* parses, to the empty tree.                                                *)

MaxParsePieces == 3

Languages   == {"en", "zh-CN", "ar"}
ParsePieces == {<<" ">>, <<NL>>, <<"\t">>, <<"x">>, <<"#">>, <<")">>}

\* a fenced block, as the extractor would have removed it, and a plain import
ParseScenarios ==
    {Fence \o Python \o <<NL>> \o ImportOs \o <<NL>> \o Fence, ImportOs}

EmptyDict == <<>>

\* line 29: not code or not code.strip(), without the strip
IsEmptyCodeNoStrip(c) == c = None \/ c = <<>>

\* line 29: not code or not code.strip()
IsEmptyCode(c) == c = None \/ c = <<>> \/ Strip(c) = <<>>

\* lines 30-36
NoCodeRecord(lang) ==
    [language |-> lang, has_code |-> FALSE, error |-> <<"No code provided">>,
     statistics |-> EmptyDict, elements |-> EmptyDict]

\* lines 46-53
ParsedRecord(lang, cleaned_code, t, addr) ==
    [language |-> lang, has_code |-> TRUE, error |-> None,
     statistics |-> _extract_statistics(t), elements |-> _extract_elements(t, addr),
     raw_code |-> cleaned_code]

\* lines 58-65 and 67-74: the record keeps the code argument, not the cleaned code
ErrorRecord(lang, kind, c) ==
    [language |-> lang, has_code |-> TRUE, error |-> <<kind, ": ", "str(e)">>,
     statistics |-> EmptyDict, elements |-> EmptyDict, raw_code |-> c]

\* line 43: what ast.parse can end with on a text
AstOutcomes(t) ==
    IF t = <<>> THEN {"Module"} ELSE {"Module", "SyntaxError", "Exception"}

InitParse ==
    /\ pc = "parse"
    /\ code \in Texts(ParsePieces, MaxParsePieces) \cup ParseScenarios \cup {None}
    /\ language \in Languages
    /\ tree \in {CallName.nodes, IfName.nodes}
    /\ cleaned = None /\ trimmed = None /\ cleaned2 = None
    /\ raw = None /\ extracted = None
    /\ prompt = None /\ requests = <<>> /\ code_only = None /\ outcome = None
    /\ record = None /\ calls = {}
    /\ RunIdle

\* lines 29-36
ParseNoCode ==
    /\ pc = "parse"
    /\ IsEmptyCode(code)
    /\ record' = NoCodeRecord(language)
    /\ pc' = "parsed"
    /\ UNCHANGED <<calls, language, tree, repairVars, extractVars, queryVars, runVars>>

\* lines 38-55
ParseTree ==
    /\ pc = "parse"
    /\ ~IsEmptyCode(code)
    /\ cleaned' = _clean_code(code)
    /\ "Module" \in AstOutcomes(cleaned')
    /\ calls' = {"_clean_code", "ast.parse", "_extract_statistics", "_extract_elements"}
    /\ \E addr \in Addresses :
          record' = ParsedRecord(language, cleaned',
                                 IF cleaned' = <<>> THEN <<>> ELSE tree, addr)
    /\ pc' = "parsed"
    /\ UNCHANGED <<code, trimmed, cleaned2, language, tree, extractVars, queryVars, runVars>>

\* lines 57-65
ParseSyntaxError ==
    /\ pc = "parse"
    /\ ~IsEmptyCode(code)
    /\ cleaned' = _clean_code(code)
    /\ "SyntaxError" \in AstOutcomes(cleaned')
    /\ calls' = {"_clean_code", "ast.parse"}
    /\ record' = ErrorRecord(language, "Syntax error", code)
    /\ pc' = "parsed"
    /\ UNCHANGED <<code, trimmed, cleaned2, language, tree, extractVars, queryVars, runVars>>

\* lines 66-74
ParseException ==
    /\ pc = "parse"
    /\ ~IsEmptyCode(code)
    /\ cleaned' = _clean_code(code)
    /\ "Exception" \in AstOutcomes(cleaned')
    /\ calls' = {"_clean_code", "ast.parse"}
    /\ record' = ErrorRecord(language, "Parsing error", code)
    /\ pc' = "parsed"
    /\ UNCHANGED <<code, trimmed, cleaned2, language, tree, extractVars, queryVars, runVars>>

parse_code == ParseNoCode \/ ParseTree \/ ParseSyntaxError \/ ParseException

SpecParse == InitParse /\ [][parse_code]_vars

\* parse_code on programs whose tree is known
InitAnalyze ==
    /\ pc = "parse"
    /\ \E m \in Modules : code = m.src /\ tree = m.nodes
    /\ language \in Languages
    /\ cleaned = None /\ trimmed = None /\ cleaned2 = None
    /\ raw = None /\ extracted = None
    /\ prompt = None /\ requests = <<>> /\ code_only = None /\ outcome = None
    /\ record = None /\ calls = {}
    /\ RunIdle

SpecAnalyze == InitAnalyze /\ [][ParseTree]_vars

\* one response from the sanitizer to the analysis record: the extracted
\* code is what parse_all_languages (line 424) hands to parse_code
InitScenario ==
    /\ pc = "extract"
    /\ raw \in Scenarios
    /\ extracted = None
    /\ language \in Languages
    /\ tree \in {CallName.nodes, IfName.nodes}
    /\ code = None /\ cleaned = None /\ trimmed = None /\ cleaned2 = None
    /\ prompt = None /\ requests = <<>> /\ code_only = None /\ outcome = None
    /\ record = None /\ calls = {}
    /\ RunIdle

HandToParser ==
    /\ pc = "extracted"
    /\ code' = extracted
    /\ pc' = "parse"
    /\ UNCHANGED <<cleaned, trimmed, cleaned2, extractVars, queryVars, parseVars, runVars>>

SpecScenario == InitScenario /\ [][Extract \/ HandToParser \/ parse_code]_vars

----------------------------------------------------------------------------
(* A run over several languages: query_llm_for_translations (pipeline.py,   *)
(* lines 30-59), then parse_all_languages and generate_summary_report on    *)
(* the mapping it produced.  A Python dict is a sequence of items in        *)
(* insertion order.  print raises when the console cannot encode the text   *)
(* it is given, which can happen only for text that comes from the model.   *)

MaxLanguages == 2

RunPrompts == {None, <<>>, <<"p", "1">>}

\* the mappings from language to prompt: no language twice, any order
Translations ==
    UNION {{t \in [1..n -> [key : Languages, value : RunPrompts]] :
              \A a, b \in 1..n : a # b => t[a].key # t[b].key} : n \in 0..MaxLanguages}

\* a fenced block that holds the unclosed call
FencedPrint == Fence \o <<NL>> \o PrintCall \o <<NL>> \o Fence

\* replies the inference server can give: two fenced blocks, a fenced block
\* that does not parse, a JSON null, a reply that is not OK, and no reply
RunReplies ==
    {[status |-> "ok", text |-> Scenario4],
     [status |-> "ok", text |-> FencedPrint],
     [status |-> "ok", text |-> None],
     [status |-> "not_ok", text |-> None],
     [status |-> "exception", text |-> None]}

\* a mapping that puts a new key in front of the others
PutFirst(d, key, value) ==
    IF \E k \in 1..Len(d) : d[k].key = key
    THEN [k \in 1..Len(d) |-> IF d[k].key = key THEN [key |-> key, value |-> value] ELSE d[k]]
    ELSE <<[key |-> key, value |-> value]>> \o d

\* d[key] = value
Put(d, key, value) ==
    IF \E k \in 1..Len(d) : d[k].key = key
    THEN [k \in 1..Len(d) |-> IF d[k].key = key THEN [key |-> key, value |-> value] ELSE d[k]]
    ELSE Append(d, [key |-> key, value |-> value])

\* list(d.keys())
Keys(d) == [k \in 1..Len(d) |-> d[k].key]

\* LLM_strip.py lines 45-79 as one step: what query_model ends with when the
\* first post is answered by r1 and the retry post, if there is one, by r2
query_model(r1, r2) ==
    IF r1.status # "ok" THEN Raise("RuntimeError")
    ELSE IF ~NeedsRetry(extract_code_from_response(r1.text))
         THEN Return(extract_code_from_response(r1.text))
    ELSE CASE r2.status = "ok"        -> Return(extract_code_from_response(r2.text))
           [] r2.status = "not_ok"    -> Return(extract_code_from_response(r1.text))
           [] r2.status = "exception" -> Raise("RequestException")

\* the posts query_model makes with these replies
PostsOf(r1, r2) ==
    IF r1.status = "ok" /\ NeedsRetry(extract_code_from_response(r1.text))
    THEN <<r1, r2>>
    ELSE <<r1>>

\* line 43 on the codes a run can store: the import statements parse, the
\* unclosed call does not
RunParses(c) == c \in {ImportOs, ImportSys}

\* the tree of an import statement
RunTree(c) ==
    CASE c = ImportOs  -> ImportS(<<<<"o", "s">>>>)
      [] c = ImportSys -> ImportS(<<<<"s", "y", "s">>>>)

\* python_ast_parser.py lines 18-74 as one step: the records parse_code can return
parse_code_returns(c, lang) ==
    IF IsEmptyCode(c) THEN {NoCodeRecord(lang)}
    ELSE IF RunParses(_clean_code(c))
         THEN {ParsedRecord(lang, _clean_code(c), RunTree(_clean_code(c)), addr) :
                  addr \in Addresses}
         ELSE {ErrorRecord(lang, "Syntax error", c)}

\* language_code.upper()
Upper(lang) ==
    CASE lang = "en"    -> "EN"
      [] lang = "zh-CN" -> "ZH-CN"
      [] lang = "ar"    -> "AR"

\* line 457
CountWithCode(a) == Cardinality({k \in 1..Len(a) : a[k].value.has_code})

\* line 458: the records whose error is neither None nor empty
CountWithErrors(a) ==
    Cardinality({k \in 1..Len(a) : a[k].value.error # None /\ a[k].value.error # <<>>})

\* lines 469-497: the block of one language
Block(item) ==
    [label |-> Upper(item.key),
     body  |-> IF ~item.value.has_code THEN <<"No code provided">>
               ELSE IF item.value.error # None THEN <<"Error", item.value.error>>
               ELSE <<"Functions", item.value.statistics.function_count,
                      "Classes", item.value.statistics.class_count,
                      "Imports", item.value.statistics.import_count,
                      "Variables", item.value.statistics.variable_count,
                      "Function calls", item.value.statistics.function_call_count>>]

\* lines 439-499
generate_summary_report(a) ==
    [total       |-> Len(a),
     with_code   |-> CountWithCode(a),
     with_errors |-> CountWithErrors(a),
     blocks      |-> [k \in 1..Len(a) |-> Block(a[k])]]

InitRun ==
    /\ pc = "loop"
    /\ translations \in Translations
    /\ position = 1
    /\ result = None /\ inner_e = None
    /\ outputs = <<>> /\ events = <<>> /\ analysis = <<>> /\ report = None
    /\ raw = None /\ extracted = None
    /\ prompt = None /\ requests = <<>> /\ code_only = None /\ outcome = None
    /\ code = None /\ cleaned = None /\ trimmed = None /\ cleaned2 = None
    /\ language = None /\ tree = None /\ record = None /\ calls = {}

Assign(lang, value, line) == [op |-> "assign", lang |-> lang, value |-> value, line |-> line]

\* pipeline.py lines 34-37: no prompt, no query
SkipLanguage ==
    /\ pc = "loop" /\ position <= Len(translations)
    /\ translations[position].value \in {None, <<>>}
    /\ outputs' = Put(outputs, translations[position].key, None)
    /\ events' = Append(events, Assign(translations[position].key, None, 36))
    /\ position' = position + 1
    /\ UNCHANGED <<pc, translations, result, inner_e, analysis, report,
                   extractVars, queryVars, repairVars, parseVars>>

\* lines 38-43 and 49: the call of query_model, which returns or raises
CallQueryModel ==
    /\ pc = "loop" /\ position <= Len(translations)
    /\ translations[position].value \notin {None, <<>>}
    /\ \E r1, r2 \in RunReplies :
          /\ events' = Append(events, [op |-> "query_model",
                                       lang |-> translations[position].key,
                                       posts |-> PostsOf(r1, r2)])
          /\ IF query_model(r1, r2).kind = "return"
             THEN /\ result' = query_model(r1, r2).value
                  /\ pc' = "store"
                  /\ UNCHANGED inner_e
             ELSE /\ inner_e' = <<query_model(r1, r2).value>>
                  /\ pc' = "except"
                  /\ UNCHANGED result
    /\ UNCHANGED <<translations, position, outputs, analysis, report,
                   extractVars, queryVars, repairVars, parseVars>>

\* lines 44-47: outputs[lang] = result
StoreResult ==
    /\ pc = "store"
    /\ outputs' = Put(outputs, translations[position].key, result)
    /\ events' = Append(events, Assign(translations[position].key, result, 47))
    /\ pc' = "print"
    /\ UNCHANGED <<translations, position, result, inner_e, analysis, report,
                   extractVars, queryVars, repairVars, parseVars>>

\* lines 48 and 55: the result is printed, then the next language
PrintResult ==
    /\ pc = "print"
    /\ position' = position + 1
    /\ pc' = "loop"
    /\ UNCHANGED <<translations, result, inner_e, outputs, events, analysis, report,
                   extractVars, queryVars, repairVars, parseVars>>

\* lines 48-49: the console cannot encode the generated code
PrintResultRaises ==
    /\ pc = "print"
    /\ result # <<>>
    /\ inner_e' = <<"UnicodeEncodeError">>
    /\ pc' = "except"
    /\ UNCHANGED <<translations, position, result, outputs, events, analysis, report,
                   extractVars, queryVars, repairVars, parseVars>>

\* an inner handler that gives up on the remaining languages
HandleInnerBreaks ==
    /\ pc = "except"
    /\ outputs' = Put(outputs, translations[position].key, None)
    /\ events' = Append(events, Assign(translations[position].key, None, 54))
    /\ position' = Len(translations) + 1
    /\ pc' = "loop"
    /\ UNCHANGED <<translations, result, inner_e, analysis, report,
                   extractVars, queryVars, repairVars, parseVars>>

\* lines 49-55: the inner handler
HandleInner ==
    /\ pc = "except"
    /\ outputs' = Put(outputs, translations[position].key, None)
    /\ events' = Append(events, Assign(translations[position].key, None, 54))
    /\ position' = position + 1
    /\ pc' = "loop"
    /\ UNCHANGED <<translations, result, inner_e, analysis, report,
                   extractVars, queryVars, repairVars, parseVars>>

\* lines 53 and 56-58: the console cannot encode the message of a failed
\* request, which quotes the reply; the outer handler prints the encoding
\* error, which it can, and stores null
HandleOuter ==
    /\ pc = "except"
    /\ inner_e = <<"RuntimeError">>
    /\ outputs' = Put(outputs, translations[position].key, None)
    /\ events' = Append(events, Assign(translations[position].key, None, 58))
    /\ position' = position + 1
    /\ pc' = "loop"
    /\ UNCHANGED <<translations, result, inner_e, analysis, report,
                   extractVars, queryVars, repairVars, parseVars>>

\* line 59, and pipeline.py lines 136-139: the mapping is returned and
\* saved; parse_all_languages (lines 410-420) loads it
ReturnOutputs ==
    /\ pc = "loop" /\ position > Len(translations)
    /\ pc' = "analyze"
    /\ position' = 1
    /\ UNCHANGED <<translations, result, inner_e, outputs, events, analysis, report,
                   extractVars, queryVars, repairVars, parseVars>>

\* python_ast_parser.py lines 421-424
AnalyzeLanguage ==
    /\ pc = "analyze" /\ position <= Len(outputs)
    /\ \E rec \in parse_code_returns(outputs[position].value, outputs[position].key) :
          analysis' = Put(analysis, outputs[position].key, rec)
    /\ position' = position + 1
    /\ UNCHANGED <<pc, translations, result, inner_e, outputs, events, report,
                   extractVars, queryVars, repairVars, parseVars>>

\* lines 425 and 522: the report of the finished analysis
Summarize ==
    /\ pc = "analyze" /\ position > Len(outputs)
    /\ report' = generate_summary_report(analysis)
    /\ pc' = "reported"
    /\ UNCHANGED <<translations, position, result, inner_e, outputs, events, analysis,
                   extractVars, queryVars, repairVars, parseVars>>

query_llm_for_translations ==
    \/ SkipLanguage \/ CallQueryModel \/ StoreResult \/ PrintResult
    \/ PrintResultRaises \/ HandleInner \/ HandleOuter \/ ReturnOutputs

SpecRun == InitRun /\ [][query_llm_for_translations \/ AnalyzeLanguage \/ Summarize]_vars

----------------------------------------------------------------------------
(* Claims about the sanitizer *)

\* position p of s lies in a reasoning region: after an opening marker, with
\* no closing marker between the two and a closing marker further on
InsideThink(s, p) ==
    \E i \in 1..(p - 1) :
        /\ MatchAt(s, i, ThinkOpen)
        /\ i + Len(ThinkOpen) <= p
        /\ ~\E k \in (i + Len(ThinkOpen))..p : MatchAt(s, k, ThinkClose)
        /\ \E j \in (p + 1)..Len(s) : MatchAt(s, j, ThinkClose)

SecretOnlyInsideThink(s) ==
    /\ \E p \in 1..Len(s) : s[p] = Secret
    /\ \A p \in 1..Len(s) : s[p] = Secret => InsideThink(s, p)

\* C1: when every reasoning character of the raw response lies inside a
\* paired reasoning region, none of them is in the extracted code, whether a
\* fence or a code-start marker stands inside the region or not.
C1_NoReasoningLeak ==
    (pc = "extracted" /\ raw # None /\ SecretOnlyInsideThink(raw))
        => \A k \in 1..Len(extracted) : extracted[k] # Secret

\* C1 witness: reasoning text inside a region that holds a second opening
\* marker, and code after the region that is extracted.
C1_Witness ==
    /\ pc = "extracted" /\ raw # None
    /\ SecretOnlyInsideThink(raw)
    /\ \E i, j \in 1..Len(raw) :
          /\ MatchAt(raw, i, ThinkOpen) /\ MatchAt(raw, j, ThinkOpen)
          /\ i < j /\ InsideThink(raw, j)
    /\ extracted # <<>>

\* the blocks the fence scan finds after the two removals
BlocksOf(r) == FencedBlocks(Sanitized(r))

\* C2: with one or more fenced blocks the result is a block no other block
\* is longer than, and no earlier block is as long as; for blocks x and xx in
\* either order it is xx.
C2_LongestFirst ==
    (pc = "extracted" /\ raw # None /\ BlocksOf(raw) # <<>>)
        => /\ \E i \in 1..Len(BlocksOf(raw)) :
                /\ extracted = Strip(BlocksOf(raw)[i])
                /\ \A j \in 1..Len(BlocksOf(raw)) :
                      Len(Strip(BlocksOf(raw)[j])) <= Len(extracted)
                /\ \A j \in 1..(i - 1) :
                      Len(Strip(BlocksOf(raw)[j])) < Len(extracted)
           /\ raw \in {XThenXX, XXThenX} => extracted = <<"x", "x">>

\* C2 witness: two different blocks of the same greatest length, the first
\* of them returned.
C2_Witness ==
    /\ pc = "extracted" /\ raw # None
    /\ Len(BlocksOf(raw)) >= 2
    /\ BlocksOf(raw)[1] # BlocksOf(raw)[2]
    /\ Len(BlocksOf(raw)[1]) = Len(BlocksOf(raw)[2])
    /\ extracted = BlocksOf(raw)[1]
    /\ extracted # <<>>

\* C3 as stated: the two blocks of scenario 4 tie and the first is returned.
C3_Original ==
    (pc = "extracted" /\ raw = Scenario4) => extracted = ImportOs

\* C3 amended: the blocks of scenario 4 are 9 and 10 characters long, so
\* they do not tie, and the second, longer block is returned.
C3_LongerSecondBlock ==
    (pc = "extracted" /\ raw = Scenario4)
        => /\ BlocksOf(raw) = <<ImportOs, ImportSys>>
           /\ Len(ImportOs) = 9 /\ Len(ImportSys) = 10
           /\ extracted = ImportSys

C3_Witness == pc = "extracted" /\ raw = Scenario4 /\ extracted = ImportSys

\* two fence delimiters that do not overlap
HasFencePair(s) ==
    \E i, j \in 1..Len(s) :
        MatchAt(s, i, Fence) /\ MatchAt(s, j, Fence) /\ j >= i + Len(Fence)

\* a code-start marker at k with nothing but blanks before it on its line
LineStartMarkerAt(s, k) ==
    /\ MarkerAt(s, k)
    /\ \A j \in 1..(k - 1) : (\A m \in j..(k - 1) : s[m] # NL) => s[j] \in WS

IsPrefix(a, b) == Len(a) <= Len(b) /\ SubSeq(b, 1, Len(a)) = a

\* C4: without a fenced block and without a code-start marker at the start
\* of a line the result is empty, and a non-empty result is a fenced block or
\* text of the response that begins at a code-start marker at the start of a
\* line.
C4_NoProsePassThrough ==
    (pc = "extracted" /\ raw # None)
        => LET s == Sanitized(raw)
           IN  /\ (~HasFencePair(s) /\ ~\E k \in 1..Len(s) : LineStartMarkerAt(s, k))
                      => extracted = <<>>
               /\ extracted # <<>>
                      => \/ \E i \in 1..Len(BlocksOf(raw)) : extracted = BlocksOf(raw)[i]
                         \/ \E k \in 1..Len(s) :
                               LineStartMarkerAt(s, k) /\ IsPrefix(extracted, From(s, k))

\* C4 witness: prose that is left after the removals, with no fence and no
\* marker, and an empty result.
C4_Witness ==
    /\ pc = "extracted" /\ raw # None
    /\ Strip(Sanitized(raw)) # <<>>
    /\ ~HasFencePair(Sanitized(raw))
    /\ ~\E k \in 1..Len(Sanitized(raw)) : LineStartMarkerAt(Sanitized(raw), k)
    /\ extracted = <<>>

----------------------------------------------------------------------------
(* Claims about query_model *)

Finished == pc \in {"returned", "raised"}

\* C5 as stated: whenever a retry was issued, the ladder is applied to the
\* reply of the retry and that result is what query_model returns.
C5_Original ==
    (Finished /\ Len(requests) = 2)
        => outcome = Return(extract_code_from_response(requests[2].reply.text))

\* C5 amended: at most two requests, the first with the strict instruction
\* and the second with the retry instruction and the same prompt; the
\* second is issued exactly when the first reply is OK and its extraction is
\* blank; an OK retry reply is extracted once more and that result is
\* returned even when empty; a retry reply that is not OK returns the empty
\* first result, and a failed retry request raises.
C5_BoundedRetry ==
    /\ Len(requests) <= 2
    /\ Len(requests) >= 1 => requests[1].instruction = "strict"
    /\ pc = "query" <=> requests = <<>>
    /\ pc = "retry" => Len(requests) = 1
    /\ Len(requests) = 1 =>
          /\ requests[1].reply.status # "ok" => pc = "raised"
          /\ requests[1].reply.status = "ok" =>
                LET first == extract_code_from_response(requests[1].reply.text)
                IN  IF Strip(first) = <<>>
                    THEN pc = "retry"
                    ELSE pc = "returned" /\ outcome = Return(first)
    /\ Len(requests) = 2 =>
          /\ Finished
          /\ requests[2].instruction = "retry"
          /\ requests[2].prompt = requests[1].prompt
          /\ requests[1].reply.status = "ok"
          /\ Strip(extract_code_from_response(requests[1].reply.text)) = <<>>
          /\ requests[2].reply.status = "ok" =>
                outcome = Return(extract_code_from_response(requests[2].reply.text))
          /\ requests[2].reply.status = "not_ok" => outcome = Return(<<>>)
          /\ requests[2].reply.status = "exception" => outcome.kind = "raise"

\* C5 witness: a retry whose OK reply again holds no code, returned as final.
C5_Witness ==
    /\ pc = "returned" /\ Len(requests) = 2
    /\ requests[2].reply.status = "ok"
    /\ requests[2].reply.text \notin {None, <<>>}
    /\ outcome = Return(<<>>)

----------------------------------------------------------------------------
(* Claims about the repair routine *)

Kinds == {<<"(", ")">>, <<"[", "]">>, <<"{", "}">>}

Repaired == pc \in {"repaired", "repaired2"}

\* max(0, closers - openers) for one kind
Excess(t, kind) ==
    IF Count(t, kind[2]) > Count(t, kind[1])
    THEN Count(t, kind[2]) - Count(t, kind[1])
    ELSE 0

\* position p holds one of the last Excess closing symbols of its kind
AmongLastExcess(t, p) ==
    \E kind \in Kinds :
        /\ t[p] = kind[2]
        /\ Cardinality({k \in p..Len(t) : t[k] = kind[2]}) <= Excess(t, kind)

\* t without the positions that hold one of the last Excess closing symbols
RECURSIVE WithoutExcess(_, _)
WithoutExcess(t, p) ==
    IF p > Len(t) THEN <<>>
    ELSE (IF AmongLastExcess(t, p) THEN <<>> ELSE <<t[p]>>) \o WithoutExcess(t, p + 1)

\* C6 as stated: repairing the repaired code changes nothing.
C6_Idempotent == pc = "repaired2" => cleaned2 = cleaned

\* C7: the bracket loops remove, for each kind on its own, exactly the last
\* max(0, closers - openers) closing symbols and nothing else; no symbol is
\* inserted, and a kind with no excess keeps all its symbols.
C7_TrimRightmostExcess ==
    (Repaired /\ trimmed # None)
        => /\ trimmed = WithoutExcess(FixInput(code), 1)
           /\ \A kind \in Kinds :
                /\ Count(trimmed, kind[1]) = Count(FixInput(code), kind[1])
                /\ Count(trimmed, kind[2])
                      = Count(FixInput(code), kind[2]) - Excess(FixInput(code), kind)
           /\ \A c \in {"x"} : Count(trimmed, c) = Count(FixInput(code), c)

\* C7 witness: one kind has an excess and more closing symbols than the
\* excess, so that it matters which one goes, and another kind is left alone.
C7_Witness ==
    /\ pc = "repaired" /\ trimmed # None
    /\ \E kind \in Kinds :
          /\ Excess(FixInput(code), kind) >= 1
          /\ Count(FixInput(code), kind[2]) > Excess(FixInput(code), kind)
          /\ Count(FixInput(code), kind[1]) >= 1
          /\ FixInput(code)[1] = kind[2]
    /\ \E kind \in Kinds :
          /\ Excess(FixInput(code), kind) = 0
          /\ Count(FixInput(code), kind[1]) >= 1

\* C8 as stated: in the repaired code no kind has more closing than opening
\* symbols.
C8_NoExcessClosers ==
    Repaired => \A kind \in Kinds : Count(cleaned, kind[2]) <= Count(cleaned, kind[1])

\* the text of a line before its first comment marker
BeforeHash(line) ==
    SubSeq(line, 1, Min({k \in 1..(Len(line) + 1) : k = Len(line) + 1 \/ line[k] = "#"}) - 1)

\* the lines of s that hold more than blanks and comments, each without its
\* comment and its trailing blanks, the first also without its leading blanks
RECURSIVE VisibleFrom(_, _)
VisibleFrom(lines, k) ==
    IF k > Len(lines) THEN <<>>
    ELSE (IF Strip(BeforeHash(lines[k])) = <<>> THEN <<>> ELSE <<RStrip(BeforeHash(lines[k]))>>)
         \o VisibleFrom(lines, k + 1)

VisibleLines(s) ==
    LET v == VisibleFrom(SplitLines(s), 1)
    IN  IF v = <<>> THEN <<>> ELSE <<Strip(v[1])>> \o Tail(v)

\* the same reading of the repaired text; an empty text has no lines
LinesOf(s) ==
    IF s = <<>> THEN <<>>
    ELSE [k \in 1..Len(SplitLines(s)) |->
            IF k = 1 THEN Strip(SplitLines(s)[k]) ELSE RStrip(SplitLines(s)[k])]

Balanced(t) == \A kind \in Kinds : Count(t, kind[1]) = Count(t, kind[2])

\* C9 as stated: code with equal opener and closer counts for each kind
\* comes back unchanged but for removed comments, removed blank lines and
\* stripped outer blanks.
C9_BalancedUnchanged ==
    (pc = "repaired" /\ Balanced(code)) => LinesOf(cleaned) = VisibleLines(code)

----------------------------------------------------------------------------
(* Claims about parse_code *)

\* null, or nothing but blanks
IsBlank(c) == c = None \/ \A k \in 1..Len(c) : c[k] \in WS

\* C10: on null, empty or blank-only code parse_code returns the NoCode
\* record (has_code false, no statistics, no elements) for the language it
\* was given, and neither the repair routine nor the parser has run.
C10_EmptyGivesNoCode ==
    (pc = "parsed" /\ IsBlank(code))
        => /\ record.has_code = FALSE
           /\ record.language = language
           /\ record.statistics = <<>> /\ record.elements = <<>>
           /\ DOMAIN record = {"language", "has_code", "error", "statistics", "elements"}
           /\ calls = {}
           /\ cleaned = None

\* C10 witness: a blank-only, non-empty code under a non-English language.
C10_Witness ==
    /\ pc = "parsed"
    /\ code # None /\ code # <<>> /\ IsBlank(code)
    /\ language = "zh-CN"
    /\ record.has_code = FALSE

\* C11: in every Parsed record function_count equals the length of
\* elements.functions and class_count equals the length of elements.classes.
C11_CountsMatchLists ==
    (pc = "parsed" /\ record.error = None)
        => /\ record.statistics.function_count = Len(record.elements.functions)
           /\ record.statistics.class_count = Len(record.elements.classes)

\* C11 witness: a Parsed record with a class, a method and a function.
C11_Witness ==
    /\ pc = "parsed" /\ record.error = None
    /\ record.statistics.class_count = 1
    /\ record.statistics.function_count = 2
    /\ Len(record.elements.functions) = 2

----------------------------------------------------------------------------
(* Claims about a response on its way from the sanitizer to the record *)

\* C12 as stated: for scenario 2 the extracted code is the text from the
\* print call on, repair leaves it as it is, and the record is a ParseError.
C12_Original ==
    (raw = Scenario2 /\ pc = "parsed")
        => /\ extracted = PrintCall
           /\ cleaned = PrintCall
           /\ record.has_code = TRUE /\ record.error # None /\ record.error[1] = "Syntax error"

\* C12 amended: scenario 2 holds no code-start marker at the start of a line,
\* so the extraction is empty and the record is NoCode; neither the repair
\* routine nor the parser runs.
C12_NoMarkerNoCode ==
    (raw = Scenario2 /\ pc # "extract")
        => /\ extracted = <<>>
           /\ pc = "parsed" =>
                /\ record = NoCodeRecord(language)
                /\ cleaned = None
                /\ calls = {}

\* C12 witness: the record of scenario 2.
C12_Witness ==
    /\ raw = Scenario2 /\ pc = "parsed"
    /\ code = <<>> /\ record.has_code = FALSE

----------------------------------------------------------------------------
(* Claims about a run over several languages *)

\* the query_model calls made for a language
QueriesFor(lang) ==
    {k \in 1..Len(events) : events[k].op = "query_model" /\ events[k].lang = lang}

\* the assignments to outputs[lang]
AssignmentsTo(lang) ==
    {k \in 1..Len(events) : events[k].op = "assign" /\ events[k].lang = lang}

\* the first reply to a query for the language was OK and carried a JSON null
NullResponse(lang) ==
    \E k \in QueriesFor(lang) :
        events[k].posts[1].status = "ok" /\ events[k].posts[1].text = None

ValueOf(d, key) == d[CHOOSE k \in 1..Len(d) : d[k].key = key].value

\* the language has no request, no sanitizer call, null as its stored code
\* and a NoCode record that the report counts in total but not in with_code
StraightToNoCode(lang, others) ==
    /\ \A k \in QueriesFor(lang) : Len(events[k].posts) = 1 /\ NullResponse(lang)
    /\ ValueOf(outputs, lang) = None
    /\ ValueOf(analysis, lang) = NoCodeRecord(lang)
    /\ report.total = Len(translations)
    /\ report.with_code <= Len(translations) - others

NullLanguages ==
    {k \in 1..Len(translations) :
        translations[k].value = None \/ NullResponse(translations[k].key)}

\* C13 as stated: a language whose prompt is null, or whose raw response is
\* null, goes straight to NoCode: no request beyond the one that brought the
\* null, no sanitizer work, null as stored code, counted in total and not in
\* with_code.
C13_NullGoesToNoCode ==
    pc = "reported"
        => \A k \in NullLanguages :
              StraightToNoCode(translations[k].key, Cardinality(NullLanguages))

\* a query for the language failed: the first post was refused or lost, or
\* the retry post was lost
QueryFailed(lang) ==
    \E k \in QueriesFor(lang) :
        \/ events[k].posts[1].status # "ok"
        \/ Len(events[k].posts) = 2 /\ events[k].posts[2].status = "exception"

\* the languages the loop of query_llm_for_translations is done with
Done ==
    IF pc \in {"analyze", "reported"} THEN 1..Len(translations) ELSE 1..(position - 1)

IsErrorRecord(r) == r.has_code /\ r.error # None /\ r.raw_code # None

\* C14: failures are isolated per language. Whatever fails for one language,
\* the loop goes on with the remaining ones: every language the loop is done
\* with has an entry in outputs, null when its query failed, and when the run
\* ends outputs and analysis have an entry for every language of the input, a
\* null output giving the NoCode record and a parse failure an error record.
C14_FailuresIsolated ==
    /\ Len(outputs) >= Cardinality(Done)
    /\ \A k \in Done :
          /\ outputs[k].key = translations[k].key
          /\ QueryFailed(translations[k].key) => outputs[k].value = None
    /\ pc \in {"analyze", "reported"} => Keys(outputs) = Keys(translations)
    /\ pc = "reported"
          => /\ Keys(analysis) = Keys(translations)
             /\ report.total = Len(translations)
             /\ \A k \in 1..Len(translations) :
                   /\ outputs[k].value = None => analysis[k].value = NoCodeRecord(analysis[k].key)
                   /\ analysis[k].value.error = None \/ ~analysis[k].value.has_code
                         \/ IsErrorRecord(analysis[k].value)

\* the run ended after a query failed for the first language and the code of
\* the second did not parse
C14_Witness ==
    /\ pc = "reported"
    /\ Len(translations) = 2
    /\ QueryFailed(translations[1].key)
    /\ outputs[2].value # None
    /\ IsErrorRecord(analysis[2].value)

----------------------------------------------------------------------------
(* Claims about the error record and about name resolution *)

\* C15: when non-empty code still fails to parse after repair, parse_code
\* returns an error record that carries a description of the failure and the
\* repaired code, the text that was handed to the parser, not the code as it
\* came in.
C15_ErrorCarriesRepairedCode ==
    (pc = "parsed" /\ ~IsBlank(code) /\ calls = {"_clean_code", "ast.parse"})
        => /\ record.has_code
           /\ record.error # None /\ record.error # <<>>
           /\ record.raw_code = cleaned

\* name resolution as C16 states it: the identifier of a bare name, the
\* resolved left-hand side joined with "." and the member name for a member
\* access, the marker "unknown" for every other expression
RECURSIVE ResolvedName(_, _)
ResolvedName(t, i) ==
    IF t[i].kind = "Name" THEN t[i].id
    ELSE IF t[i].kind = "Attribute"
         THEN ResolvedName(t, Children(t, i)[1]) \o <<".">> \o t[i].id
         ELSE Unknown

\* C16: name resolution gives the marker "unknown" for every expression that
\* is neither a bare name nor a member access, so a member access on a call
\* result resolves to "unknown.<member>", and every call is listed in
\* elements.function_calls under the resolved name of its callee, the
\* unresolvable ones under the marker.
C16_UnknownMarker ==
    (pc = "parsed" /\ record.error = None)
        => LET ks == Visited(tree, {"Call"})
           IN  [k \in 1..Len(record.elements.function_calls) |->
                    record.elements.function_calls[k].name]
                 = [k \in 1..Len(ks) |-> ResolvedName(tree, Children(tree, ks[k])[1])]

----------------------------------------------------------------------------
(* Claims about the summary report *)

IsParsedRecord(r) == r.has_code /\ r.error = None

\* the languages whose record is a Parsed record, an error record
ParsedLanguages == {k \in 1..Len(analysis) : IsParsedRecord(analysis[k].value)}
FailedLanguages == {k \in 1..Len(analysis) : IsErrorRecord(analysis[k].value)}

\* C17: a missing input is not an error. with_errors counts exactly the
\* languages whose record is a ParseError or another recorded failure, never a
\* language in the NoCode state, so a run in which every language parsed or had
\* no code reports zero errors.
C17_MissingInputIsNoError ==
    pc = "reported"
        => report.with_errors = Cardinality(FailedLanguages)

\* C18: the summary counts follow the three record states. with_code counts
\* exactly the Parsed records; a ParseError record is counted in with_errors and
\* not in with_code, so with_code + with_errors never exceeds total.
C18_CountsFollowStates ==
    pc = "reported"
        => /\ report.with_code = Cardinality(ParsedLanguages)
           /\ report.with_code + report.with_errors <= report.total

IsPrefixOf(s, t) == Len(s) <= Len(t) /\ s = SubSeq(t, 1, Len(s))

\* C19: language order is preserved end to end. The keys of outputs and of
\* analysis grow in the insertion order of translations, and in the finished
\* run the keys of outputs, the keys of analysis and the labels of the blocks
\* of the report are those of translations in that order, one block per
\* language, the analysis still being the one the report was made from.
C19_OrderPreserved ==
    /\ IsPrefixOf(Keys(outputs), Keys(translations))
    /\ IsPrefixOf(Keys(analysis), Keys(outputs))
    /\ pc = "reported"
          => /\ Keys(outputs) = Keys(translations)
             /\ Keys(analysis) = Keys(translations)
             /\ Len(report.blocks) = Len(translations)
             /\ \A k \in 1..Len(translations) :
                   report.blocks[k].label = Upper(translations[k].key)
             /\ report = generate_summary_report(analysis)

\* a finished run over two languages that are not in alphabetical order, the
\* entry of the first having been assigned twice
C19_Witness ==
    /\ pc = "reported"
    /\ Keys(translations) = <<"zh-CN", "ar">>
    /\ Cardinality(AssignmentsTo("zh-CN")) = 2
    /\ report.blocks[1].label = "ZH-CN" /\ report.blocks[2].label = "AR"

\* C20: each language's entry in outputs is written exactly once: once
\* outputs[lang] has been assigned, a result or null, no later step of the
\* same or of another iteration assigns it again.
C20_WrittenOnce ==
    /\ \A k \in 1..Len(translations) :
          Cardinality(AssignmentsTo(translations[k].key)) <= 1
    /\ \A k \in Done : Cardinality(AssignmentsTo(translations[k].key)) = 1

----------------------------------------------------------------------------
(* Claims about the order of the element lists and about the counters *)

\* the nodes of the given kinds in the order in which they start in the source
InDocumentOrder(t, K) == SelectSeq(Indices(t), LAMBDA i : t[i].kind \in K)

\* C21: the element lists are in document order and the same input always
\* yields the same lists. Of two function definitions of a parsed program the
\* one that starts earlier in the source comes earlier in elements.functions,
\* a method nested in a class before a later top-level function, and the
\* lists do not depend on where the interpreter has put the nodes.
C21_DocumentOrder ==
    (pc = "parsed" /\ record.error = None)
        => /\ LET fs == InDocumentOrder(tree, {"FunctionDef"})
              IN  record.elements.functions
                    = [k \in 1..Len(fs) |-> FunctionEntry(tree, fs[k])]
           /\ \A addr \in Addresses : record.elements = _extract_elements(tree, addr)

\* C22: in every Parsed record the remaining counters bound their element
\* lists: loop_count equals the number of listed loops, variable_count,
\* function_call_count and conditional_count are at least the lengths of their
\* lists, and import_count is at most the number of listed imports.
C22_CountersBoundLists ==
    (pc = "parsed" /\ record.error = None)
        => /\ record.statistics.loop_count = Len(record.elements.loops)
           /\ record.statistics.variable_count >= Len(record.elements.variables)
           /\ record.statistics.function_call_count >= Len(record.elements.function_calls)
           /\ record.statistics.conditional_count >= Len(record.elements.conditionals)
           /\ record.statistics.import_count <= Len(record.elements.imports)

\* C22 witness: a Parsed record of an assignment to a member and an import of
\* two names, where the variable is counted and not listed and the import
\* statement is counted once and listed twice.
C22_Witness ==
    /\ pc = "parsed" /\ record.error = None
    /\ record.statistics.variable_count = 1 /\ record.elements.variables = <<>>
    /\ record.statistics.import_count = 1 /\ Len(record.elements.imports) = 2

====
